---- MODULE Spec2Model ----
(***************************************************************************)
(* ATIS decoder (atis_decoder.c): the per-bit synchronisation and symbol   *)
(* recovery loop of main(), the 10-bit symbol codec, the bit ring buffer,  *)
(* the time-diversity collector and the emission to stdout and UDP.        *)
(*                                                                         *)
(* The frequency classifier (goertzel) works on floating point samples;    *)
(* the model starts at its output: one classified bit per bit period.      *)
(***************************************************************************)
EXTENDS Integers, Sequences, FiniteSets, TLC

(* ------------------------------------------------------------------ *)
(* Program constants                                                   *)
(* ------------------------------------------------------------------ *)
SYM_DX == 125
RING == 256
DATA_CAP == 16
INT_MAX == 2147483647
INT_MIN == -INT_MAX - 1

BIT == {0, 1}
Groups == [1..10 -> BIT]

(* ------------------------------------------------------------------ *)
(* C integer helpers                                                   *)
(* ------------------------------------------------------------------ *)
\* a % n of C (n > 0): the result has the sign of a.  (For a < 0 it is
\* -((-a) mod n), written so that -INT_MIN is never formed.)
CMod(a, n) == IF a >= 0 THEN a % n ELSE -((((-(a + 1)) % n) + 1) % n)

\* x++ on an int that wraps at its width.
IncInt(x) == IF x = INT_MAX THEN INT_MIN ELSE x + 1

\* x + i (0 <= i) on an int that wraps at its width.
AddInt(x, i) ==
    IF x > INT_MAX - i THEN INT_MIN + ((i - 1) - (INT_MAX - x)) ELSE x + i

RECURSIVE popcount(_)
popcount(x) == IF x = 0 THEN 0 ELSE (x % 2) + popcount(x \div 2)

RECURSIVE Pow2(_)
Pow2(i) == IF i = 0 THEN 1 ELSE 2 * Pow2(i - 1)

(* ------------------------------------------------------------------ *)
(* ITU-R M.493 10-bit symbol decode.  b[1..10] is raw[0..9].           *)
(* ------------------------------------------------------------------ *)
RECURSIVE DataBits(_, _)
DataBits(b, i) == IF i = 7 THEN 0 ELSE b[i + 1] * Pow2(i) + DataBits(b, i + 1)

\* mutant: the check field is compared with the count of ones.
sym_decode_ones(b) ==
    LET v   == DataBits(b, 0)
        chk == b[8] * 4 + b[9] * 2 + b[10]
    IN  IF chk = popcount(v % 128) THEN v ELSE -1

\* mutant: the data bits are assembled most-significant first.
sym_decode_msb(b) ==
    LET v     == b[1] * 64 + b[2] * 32 + b[3] * 16 + b[4] * 8
                 + b[5] * 4 + b[6] * 2 + b[7]
        zeros == 7 - popcount(v % 128)
        chk   == b[8] * 4 + b[9] * 2 + b[10]
    IN  IF chk = zeros THEN v ELSE -1

\* mutant: the last bit of the check field is left out of the comparison.
sym_decode_chk2(b) ==
    LET v     == DataBits(b, 0)
        zeros == 7 - popcount(v % 128)
        chk   == b[8] * 4 + b[9] * 2
    IN  IF chk = zeros - (zeros % 2) THEN v ELSE -1

sym_decode(b) ==
    LET v     == DataBits(b, 0)
        zeros == 7 - popcount(v % 128)
        chk   == b[8] * 4 + b[9] * 2 + b[10]
    IN  IF chk = zeros THEN v ELSE -1

\* The test fixture's encoder (spec 4.2): 7 data bits least-significant
\* first, then the count of zero data bits, most-significant bit first.
encode(v) ==
    LET z == 7 - popcount(v % 128)
    IN  [i \in 1..10 |->
            IF i <= 7 THEN (v \div Pow2(i - 1)) % 2
            ELSE (z \div Pow2(10 - i)) % 2]

(* ------------------------------------------------------------------ *)
(* State                                                               *)
(* ------------------------------------------------------------------ *)
VARIABLES
    state,      \* "HUNT" or "LOCKED"
    sym_bit,    \* bit position within the current symbol (LOCKED)
    data,       \* int data[16]
    dcnt,
    started,
    parity,
    ring,       \* uint8_t ring[RING]
    rwr, rrd, rcnt,
    stdout,     \* the lines written to stdout, in order
    net,        \* what udp_send did: calls made, datagrams that left
    trace,      \* history: path taken by the last step, values accepted
                \* since the last lock, number of locks, decode attempts
    tx,         \* input: bits of the current chunk still to be delivered
    sent,       \* input: the chunks delivered so far
    scn,        \* input: the stream grammar the environment follows
    mark,       \* input: the decoder as it was when the environment
                \* began its latest phasing symbol or corrupted group
    arg, ret    \* call harness of the pure functions

progvars == <<state, sym_bit, data, dcnt, started, parity,
              ring, rwr, rrd, rcnt, stdout, net, trace>>
envvars  == <<tx, sent, scn, mark>>
vars     == <<state, sym_bit, data, dcnt, started, parity,
              ring, rwr, rrd, rcnt, stdout, net, trace,
              tx, sent, scn, mark, arg, ret>>

\* The program state as one record, so that the handler's code paths
\* can be written as functions from state to state.
Cur ==
    [state |-> state, sym_bit |-> sym_bit, data |-> data, dcnt |-> dcnt,
     started |-> started, parity |-> parity,
     ring |-> ring, rwr |-> rwr, rrd |-> rrd, rcnt |-> rcnt,
     stdout |-> stdout, net |-> net, trace |-> trace]

Commit(d) ==
    /\ state' = d.state     /\ sym_bit' = d.sym_bit
    /\ data' = d.data       /\ dcnt' = d.dcnt
    /\ started' = d.started /\ parity' = d.parity
    /\ ring' = d.ring       /\ rwr' = d.rwr
    /\ rrd' = d.rrd         /\ rcnt' = d.rcnt
    /\ stdout' = d.stdout   /\ net' = d.net
    /\ trace' = d.trace

\* The decoder proper: everything but the two output channels and the
\* history.
Decoder(d) ==
    [state |-> d.state, sym_bit |-> d.sym_bit, data |-> d.data,
     dcnt |-> d.dcnt, started |-> d.started, parity |-> d.parity,
     ring |-> d.ring, rwr |-> d.rwr, rrd |-> d.rrd, rcnt |-> d.rcnt]

\* ev: the path the last step took; acc: the values stored since the last
\* lock; locks: locks so far; elocks: for each emission, the number of the
\* lock it belongs to; ndec: sym_decode calls made by the last step;
\* lockat: bits pushed when the latest lock was taken; nsym: groups decoded
\* in LOCKED since then; syms: the valid ones' values; failat: bits pushed
\* when a group last failed in LOCKED.
NoTrace ==
    [ev |-> "init", acc |-> <<>>, locks |-> 0, elocks |-> <<>>, ndec |-> 0,
     lockat |-> 0, nsym |-> 0, syms |-> <<>>, failat |-> 0]

\* State after construction (statics zeroed; data[] is not initialised
\* and holds -1 here, a value no write ever stores).
InitProg ==
    /\ state = "HUNT" /\ sym_bit = 0
    /\ data = [i \in 0..(DATA_CAP - 1) |-> -1]
    /\ dcnt = 0 /\ started = FALSE /\ parity = 0
    /\ ring = [i \in 0..(RING - 1) |-> 0]
    /\ rwr = 0 /\ rrd = 0 /\ rcnt = 0
    /\ stdout = <<>>
    /\ net = [calls |-> 0, dgrams |-> <<>>]
    /\ trace = NoTrace

(* ------------------------------------------------------------------ *)
(* Bit ring buffer                                                     *)
(* ------------------------------------------------------------------ *)
rpush(d, b) ==
    [d EXCEPT !.ring = [d.ring EXCEPT ![CMod(d.rwr, RING)] = b],
              !.rwr = IncInt(d.rwr),
              !.rcnt = d.rcnt + 1]

\* rpop(): the value returned, and the state it leaves.
rpopVal(d) == d.ring[CMod(d.rrd, RING)]

rpop(d) == [d EXCEPT !.rcnt = d.rcnt - 1, !.rrd = IncInt(d.rrd)]

rpeek(d, i) == d.ring[CMod(AddInt(d.rrd, i), RING)]

\* for (i = 0; i < 10; i++) raw[i] = rpeek(i);
Peek10(d) == [i \in 1..10 |-> rpeek(d, i - 1)]

\* n successive rpop(): the state left, and the values returned.
RECURSIVE PopN(_, _)
PopN(d, n) == IF n = 0 THEN d ELSE PopN(rpop(d), n - 1)

RECURSIVE PopVals(_, _)
PopVals(d, n) ==
    IF n = 0 THEN <<>> ELSE <<rpopVal(d)>> \o PopVals(rpop(d), n - 1)

(* ------------------------------------------------------------------ *)
(* Output: formatting and UDP                                          *)
(* ------------------------------------------------------------------ *)
DigitChar == <<"0", "1", "2", "3", "4", "5", "6", "7", "8", "9">>

\* The decimal digits of n >= 0, most significant first.
RECURSIVE DecStr(_)
DecStr(n) ==
    IF n < 10 THEN <<DigitChar[n + 1]>>
    ELSE Append(DecStr(n \div 10), DigitChar[(n % 10) + 1])

\* snprintf(.., "%02d", n) for n >= 0: at least two digits, zero padded.
Fmt02d(n) == IF n < 10 THEN <<"0">> \o DecStr(n) ELSE DecStr(n)

\* for (i = 0; i < 5; i++) len += snprintf(out+len, .., "%02d", data[i]);
RECURSIVE Render(_, _)
Render(dat, i) == IF i = 5 THEN <<>> ELSE Fmt02d(dat[i]) \o Render(dat, i + 1)

\* mutant: nothing is stripped.
StripLeadingZero_never(out) == out

\* char *p = (len == 10 && out[0] == '0') ? out+1 : out;
StripLeadingZero(out) ==
    IF Len(out) = 10 /\ out[1] = "0" THEN Tail(out) ELSE out

\* fprintf(stdout, "ATIS: %s\n", p)
StdoutLine(p) == <<"A", "T", "I", "S", ":", " ">> \o p \o <<"\n">>

\* The outcomes of one udp_send: socket() fails, sendto() fails, or the
\* datagram leaves.
SendRes == {"sent", "nosocket", "senderr"}

\* One call: socket(); if that fails, return; else one sendto, whose
\* result is ignored, and close.  `calls` counts the calls, `dgrams` holds
\* the datagrams that left.
udp_send(n, msg, res) ==
    IF res = "nosocket" THEN [n EXCEPT !.calls = @ + 1]
    ELSE IF res = "senderr" THEN [n EXCEPT !.calls = @ + 1]
    ELSE [n EXCEPT !.calls = @ + 1, !.dgrams = Append(@, msg)]

(* ------------------------------------------------------------------ *)
(* The per-bit handler: the body of main()'s loop once a bit period    *)
(* is complete                                                         *)
(* ------------------------------------------------------------------ *)
Mark(d, e) == [d EXCEPT !.trace.ev = e]

\* mutant: the lock leaves the last bit of the phasing symbol in the ring.
Acquire_pop9(d) ==
    [PopN(d, 9) EXCEPT !.state = "LOCKED", !.sym_bit = 0, !.dcnt = 0,
                       !.started = FALSE, !.parity = 0,
                       !.trace.ev = "lock", !.trace.acc = <<>>,
                       !.trace.locks = @ + 1, !.trace.lockat = d.rwr,
                       !.trace.nsym = 0, !.trace.syms = <<>>]

\* mutant: the lock leaves the whole phasing symbol in the ring.
Acquire_nopop(d) ==
    [d EXCEPT !.state = "LOCKED", !.sym_bit = 0, !.dcnt = 0,
              !.started = FALSE, !.parity = 0,
              !.trace.ev = "lock", !.trace.acc = <<>>,
              !.trace.locks = @ + 1, !.trace.lockat = d.rwr,
              !.trace.nsym = 0, !.trace.syms = <<>>]

\* Lock on DX: consume the 10 bits, reset the symbol and collection state.
Acquire(d) ==
    [PopN(d, 10) EXCEPT !.state = "LOCKED", !.sym_bit = 0, !.dcnt = 0,
                        !.started = FALSE, !.parity = 0,
                        !.trace.ev = "lock", !.trace.acc = <<>>,
                        !.trace.locks = @ + 1, !.trace.lockat = d.rwr,
                        !.trace.nsym = 0, !.trace.syms = <<>>]

\* mutant: a window that is not DX is dropped whole, not slid by one bit.
HuntLoop_jump(d) ==
    IF d.rcnt >= 10
    THEN LET d1 == [d EXCEPT !.trace.ndec = @ + 1]
         IN  IF sym_decode(Peek10(d1)) = SYM_DX
             THEN Acquire(d1)
             ELSE Mark(PopN(d1, 10), "slide")
    ELSE d

\* while (rcnt >= 10) { ... }
RECURSIVE HuntLoop(_)
HuntLoop(d) ==
    IF d.rcnt >= 10
    THEN LET d1 == [d EXCEPT !.trace.ndec = @ + 1]
         IN  IF sym_decode(Peek10(d1)) = SYM_DX
             THEN Acquire(d1)
             ELSE HuntLoop(Mark(rpop(d1), "slide"))
    ELSE d

\* mutant: after a failed decode the collection state is kept.
Resync_keep(d) ==
    [d EXCEPT !.state = "HUNT", !.trace.ev = "invalid",
              !.trace.failat = d.rwr]

\* mutant: a failed decode is skipped and the decoder stays LOCKED.
Resync_stay(d) ==
    [d EXCEPT !.trace.ev = "invalid", !.trace.failat = d.rwr]

\* if (v < 0) { state = HUNT; dcnt = 0; started = 0; continue; }
\* mutant: after a failed group the search resumes at its second bit.
Resync_rewind(d) ==
    [d EXCEPT !.state = "HUNT", !.dcnt = 0, !.started = FALSE,
              !.rrd = @ - 9, !.rcnt = 9,
              !.trace.ev = "invalid", !.trace.failat = d.rwr]

Resync(d) ==
    [d EXCEPT !.state = "HUNT", !.dcnt = 0, !.started = FALSE,
              !.trace.ev = "invalid", !.trace.failat = d.rwr]

\* mutant: an emission resets nothing; the decoder goes on collecting.
Emit_keep(d, res) ==
    LET out == Render(d.data, 0)
        p   == StripLeadingZero(out)
    IN  [d EXCEPT !.stdout = Append(@, StdoutLine(p)),
                  !.net = udp_send(@, p \o <<"\n">>, res),
                  !.trace.ev = "emit",
                  !.trace.elocks = Append(@, d.trace.locks)]

\* mutant: the decoder stays LOCKED after an emission.
Emit_stay(d, res) ==
    LET out == Render(d.data, 0)
        p   == StripLeadingZero(out)
    IN  [d EXCEPT !.stdout = Append(@, StdoutLine(p)),
                  !.net = udp_send(@, p \o <<"\n">>, res),
                  !.dcnt = 0, !.started = FALSE,
                  !.trace.ev = "emit",
                  !.trace.elocks = Append(@, d.trace.locks)]

\* mutant: the decoder is reset only when the datagram left.
Emit_onsent(d, res) ==
    LET out == Render(d.data, 0)
        p   == StripLeadingZero(out)
        d1  == [d EXCEPT !.stdout = Append(@, StdoutLine(p)),
                         !.net = udp_send(@, p \o <<"\n">>, res),
                         !.trace.ev = "emit",
                  !.trace.elocks = Append(@, d.trace.locks)]
    IN  IF res = "sent"
        THEN [d1 EXCEPT !.state = "HUNT", !.dcnt = 0, !.started = FALSE]
        ELSE d1

\* if (dcnt == 5) { render, strip, print, send, back to HUNT }
Emit(d, res) ==
    LET out == Render(d.data, 0)
        p   == StripLeadingZero(out)
    IN  [d EXCEPT !.stdout = Append(@, StdoutLine(p)),
                  !.net = udp_send(@, p \o <<"\n">>, res),
                  !.state = "HUNT", !.dcnt = 0, !.started = FALSE,
                  !.trace.ev = "emit",
                  !.trace.elocks = Append(@, d.trace.locks)]

\* mutant: every symbol is a READ (no alternation).
IsRead_all(par) == TRUE

\* if (parity % 2 == 0)
IsRead(par) == CMod(par, 2) = 0

\* mutant: the first data symbol is not itself read.
Collect_skipfirst(d, v, res) ==
    IF ~d.started /\ v > 99 THEN Mark(d, "ignore")
    ELSE
    LET d1 == IF ~d.started
              THEN [d EXCEPT !.started = TRUE, !.parity = 1]
              ELSE d
        rd == IsRead(d1.parity) /\ v <= 99 /\ d1.dcnt < DATA_CAP
        d2 == IF rd
              THEN [d1 EXCEPT !.data[d1.dcnt] = v, !.dcnt = @ + 1,
                              !.trace.acc = Append(@, v)]
              ELSE d1
        d3 == [d2 EXCEPT !.parity = @ + 1,
                         !.trace.ev = IF rd THEN "read" ELSE "skip"]
    IN  IF d3.dcnt = 5 THEN Emit(d3, res) ELSE d3

\* mutant: a symbol above 99 ends the reception.
Collect_giveup(d, v, res) ==
    IF v > 99 THEN [Mark(d, "ignore") EXCEPT !.state = "HUNT"]
    ELSE
    LET d1 == IF ~d.started
              THEN [d EXCEPT !.started = TRUE, !.parity = 0]
              ELSE d
        rd == IsRead(d1.parity) /\ v <= 99 /\ d1.dcnt < DATA_CAP
        d2 == IF rd
              THEN [d1 EXCEPT !.data[d1.dcnt] = v, !.dcnt = @ + 1,
                              !.trace.acc = Append(@, v)]
              ELSE d1
        d3 == [d2 EXCEPT !.parity = @ + 1,
                         !.trace.ev = IF rd THEN "read" ELSE "skip"]
    IN  IF d3.dcnt = 5 THEN Emit(d3, res) ELSE d3

\* A valid symbol v in LOCKED: wait for the first data symbol, then
\* alternate READ / SKIP, and emit once 5 values are collected.
Collect(d, v, res) ==
    IF ~d.started /\ v > 99 THEN Mark(d, "ignore")
    ELSE
    LET d1 == IF ~d.started
              THEN [d EXCEPT !.started = TRUE, !.parity = 0]
              ELSE d
        rd == IsRead(d1.parity) /\ v <= 99 /\ d1.dcnt < DATA_CAP
        d2 == IF rd
              THEN [d1 EXCEPT !.data[d1.dcnt] = v, !.dcnt = @ + 1,
                              !.trace.acc = Append(@, v)]
              ELSE d1
        d3 == [d2 EXCEPT !.parity = @ + 1,
                         !.trace.ev = IF rd THEN "read" ELSE "skip"]
    IN  IF d3.dcnt = 5 THEN Emit(d3, res) ELSE d3

\* The three paths of the handler for input bit b.  Each starts with
\* rpush(bit).
HuntStep(d, b) ==
    HuntLoop(Mark([rpush(d, b) EXCEPT !.trace.ndec = 0], "wait"))

ShiftStep(d, b) ==
    Mark([rpush(d, b) EXCEPT !.sym_bit = @ + 1, !.trace.ndec = 0], "shift")

SymbolStep(d, b, res) ==
    LET d1  == [rpush(d, b) EXCEPT !.sym_bit = 0, !.trace.ndec = 1,
                                   !.trace.nsym = @ + 1]
        raw == PopVals(d1, 10)
        d2  == PopN(d1, 10)
        v   == sym_decode(raw)
    IN  IF v < 0 THEN Resync(d2)
        ELSE Collect([d2 EXCEPT !.trace.syms = Append(@, v)], v, res)

\* The handler as one function of the state, the bit and the outcome of
\* the send (which matters only when the step emits).
HandleBit(d, b, res) ==
    IF d.state = "HUNT" THEN HuntStep(d, b)
    ELSE IF d.sym_bit + 1 < 10 THEN ShiftStep(d, b)
    ELSE SymbolStep(d, b, res)

(* ------------------------------------------------------------------ *)
(* Input streams                                                       *)
(* ------------------------------------------------------------------ *)
\* Bounds of the streams.
BurstSlots == 10   \* symbol slots sent after the phasing symbols
MaxStart   == 6    \* latest slot of the transmission a stream starts at
MaxNoise   == 10   \* longest run of arbitrary bits
MaxPre     == 5    \* most symbols between a lock and a corrupted group
MaxChunks  == 6    \* most chunks of a free stream
MaxHold    == 10   \* most groups sent after the phasing symbol of a hold

\* A chunk of input: a valid symbol, a group whose check field is off by
\* x (mod 8), or one bit.
Sym(v)    == [k |-> "sym", v |-> v, x |-> 0]
Bad(v, x) == [k |-> "bad", v |-> v, x |-> x]
Bit(b)    == [k |-> "bit", v |-> b, x |-> 0]

BadGroup(v, x) ==
    LET c == ((7 - popcount(v % 128)) + x) % 8
    IN  [i \in 1..10 |->
            IF i <= 7 THEN encode(v)[i] ELSE (c \div Pow2(10 - i)) % 2]

Bits(c) ==
    IF c.k = "sym" THEN encode(c.v)
    ELSE IF c.k = "bad" THEN BadGroup(c.v, c.x)
    ELSE <<c.v>>

\* Underlying symbol k of a transmission b: digit pairs from k = 0 on,
\* all distinct when b.step = 11; before them reserved symbols, or more
\* digit pairs.
U(b, k) ==
    IF k < 0 /\ b.pre = "reserved" THEN 120 + k
    ELSE (b.base + b.step * k) % 100

\* The symbol in slot s of a transmission.
\*   "il":    symbol k is sent in slot 2k and again in slot 2k + 5
\*            (ITU-R M.493 time diversity: DX and RX positions alternate);
\*   "block": symbols 5j .. 5j+4 are sent in slots 10j .. 10j+4 and again
\*            in slots 10j+5 .. 10j+9.
SlotVal(b, s) ==
    IF b.layout = "il"
    THEN U(b, IF s % 2 = 0 THEN s \div 2 ELSE (s - 5) \div 2)
    ELSE U(b, 5 * (s \div 10) + (s % 5))

\* First index of a chunk of kind k in h, 0 if there is none.
FirstOf(h, k) ==
    IF \E i \in 1..Len(h) : h[i].k = k
    THEN CHOOSE i \in 1..Len(h) : h[i].k = k /\ \A j \in 1..(i - 1) : h[j].k # k
    ELSE 0

\* "burst": scn.nph phasing symbols, then BurstSlots slots of the
\* transmission scn, from slot scn.p on.
BurstScns ==
    { [name |-> "burst", layout |-> l, p |-> p, nph |-> n,
       base |-> b, step |-> st, pre |-> pr] :
        l \in {"il", "block"}, p \in 0..MaxStart, n \in 1..2,
        b \in {0, 5, 42, 93}, st \in {11, 0}, pr \in {"reserved", "digits"} }

BurstNext ==
    LET n == Len(sent)
    IN  IF n < scn.nph THEN {Sym(SYM_DX)}
        ELSE IF n < scn.nph + BurstSlots
        THEN {Sym(SlotVal(scn, scn.p + (n - scn.nph)))}
        ELSE {}

\* "noise": up to MaxNoise arbitrary bits, then one phasing symbol and
\* slots 0..8 of the transmission NoiseBurst.
NoiseBurst ==
    [layout |-> "il", base |-> 42, step |-> 11, pre |-> "reserved"]

\* The digit pairs of NoiseBurst.
Run5NoiseBurst == [j \in 1..5 |-> U(NoiseBurst, j - 1)]

NoiseNext ==
    LET n == Len(sent)
        j == FirstOf(sent, "sym")
    IN  IF j = 0
        THEN (IF n < MaxNoise THEN {Bit(0), Bit(1)} ELSE {}) \cup {Sym(SYM_DX)}
        ELSE IF n - j < 9 THEN {Sym(SlotVal(NoiseBurst, n - j))}
        ELSE {}

\* "resync": a phasing symbol, up to MaxPre valid symbols, one corrupted
\* group, then twice: a phasing symbol and slots 0..8 of a transmission.
PreSet == {Sym(77), Sym(110)}
BadSet == {Bad(5, 1), Bad(SYM_DX, 3), Bad(0, 1), Bad(127, 7), Bad(77, 4)}
FirstBurst ==
    [layout |-> "il", base |-> 5, step |-> 11, pre |-> "reserved"]
SecondBurst ==
    [layout |-> "il", base |-> 1, step |-> 11, pre |-> "digits"]

ResyncNext ==
    LET n == Len(sent)
        j == FirstOf(sent, "bad")
        m == n - j
    IN  IF n = 0 THEN {Sym(SYM_DX)}
        ELSE IF j = 0
        THEN (IF n - 1 < MaxPre THEN PreSet ELSE {}) \cup BadSet
        ELSE IF m = 0 THEN {Sym(SYM_DX)}
        ELSE IF m <= 9 THEN {Sym(SlotVal(FirstBurst, m - 1))}
        ELSE IF m = 10 THEN {Sym(SYM_DX)}
        ELSE IF m <= 19 THEN {Sym(SlotVal(SecondBurst, m - 11))}
        ELSE {}

\* "free": any MaxChunks of a phasing symbol, a digit pair, a 0, a 1.
FreeSet == {Sym(SYM_DX), Sym(77), Bit(0), Bit(1)}

FreeNext == IF Len(sent) < MaxChunks THEN FreeSet ELSE {}

\* "hold": a phasing symbol, then up to MaxHold groups, each the
\* reserved symbol 110, the digit pair 77 or a corrupted group; a
\* corrupted group ends the stream.
HoldNext ==
    LET n == Len(sent)
    IN  IF n = 0 THEN {Sym(SYM_DX)}
        ELSE IF sent[n].k = "bad" \/ n - 1 >= MaxHold THEN {}
        ELSE {Sym(110), Sym(77), Bad(0, 1)}

Allowed ==
    IF scn.name = "burst" THEN BurstNext
    ELSE IF scn.name = "hold" THEN HoldNext
    ELSE IF scn.name = "free" THEN FreeNext
    ELSE IF scn.name = "noise" THEN NoiseNext
    ELSE IF scn.name = "resync" THEN ResyncNext
    ELSE {}

\* What the environment may deliver next: the rest of the chunk under
\* way, or the start of a chunk its grammar allows.
Offered ==
    IF tx # <<>>
    THEN {[bits |-> tx, sent |-> sent, mark |-> mark]}
    ELSE {[bits |-> Bits(c), sent |-> Append(sent, c),
           mark |-> IF c = Sym(SYM_DX) \/ c.k = "bad"
                   THEN Decoder(Cur) ELSE mark] :
              c \in Allowed}

Deliver(o) ==
    /\ tx' = Tail(o.bits)
    /\ sent' = o.sent
    /\ mark' = o.mark
    /\ UNCHANGED <<scn, arg, ret>>

StreamDone == tx = <<>> /\ Allowed = {}

(* ------------------------------------------------------------------ *)
(* Actions: one iteration of main()'s loop that completes a bit period *)
(* ------------------------------------------------------------------ *)
\* rpush's index lies in ring[].  A step that would write outside the
\* array is undefined and is not taken.
PushInRange == CMod(rwr, RING) \in 0..(RING - 1)

\* state == HUNT
HuntBit ==
    /\ state = "HUNT"
    /\ PushInRange
    /\ \E o \in Offered :
          /\ Deliver(o)
          /\ Commit(HuntStep(Cur, Head(o.bits)))

\* LOCKED, sym_bit < 10 after the increment: the bit is only stored.
ShiftBit ==
    /\ state = "LOCKED"
    /\ sym_bit + 1 < 10
    /\ PushInRange
    /\ \E o \in Offered :
          /\ Deliver(o)
          /\ Commit(ShiftStep(Cur, Head(o.bits)))

\* LOCKED, tenth bit of a symbol: decode, collect, perhaps emit.
SymbolBit ==
    /\ state = "LOCKED"
    /\ ~(sym_bit + 1 < 10)
    /\ PushInRange
    /\ \E o \in Offered, res \in SendRes :
          /\ Deliver(o)
          /\ Commit(SymbolStep(Cur, Head(o.bits), res))

Next == HuntBit \/ ShiftBit \/ SymbolBit

InitEnv(S) ==
    /\ tx = <<>> /\ sent = <<>> /\ scn \in S
    /\ mark = [state |-> "none"]
    /\ arg = <<>> /\ ret = <<>>

\* The resynchronisation streams.
Init == InitProg /\ InitEnv({[name |-> "resync"]})
Spec == Init /\ [][Next]_vars

\* The bursts, in both layouts.
InitBurst == InitProg /\ InitEnv(BurstScns)
SpecBurst == InitBurst /\ [][Next]_vars

\* Arbitrary bits, then a burst.
InitNoise == InitProg /\ InitEnv({[name |-> "noise"]})
SpecNoise == InitNoise /\ [][Next]_vars

\* Free streams into a decoder just started.
InitFree == InitProg /\ InitEnv({[name |-> "free"]})
SpecFree == InitFree /\ [][Next]_vars

\* Symbol after symbol into a locked decoder.
InitHold == InitProg /\ InitEnv({[name |-> "hold"]})
SpecHold == InitHold /\ [][Next]_vars

\* A decoder that has run for a while.  Its input so far was m times a
\* phasing symbol and a corrupted group (20 bits): each pair locks on the
\* tenth bit, fails on the twentieth and leaves the ring empty, so after
\* m pairs the cursors stand at 20 * m and cell i of the ring holds the
\* latest bit written at a position congruent to i.
AgedPair == Bits(Sym(SYM_DX)) \o Bits(Bad(0, 1))

AgedBit(n) == AgedPair[(n % 20) + 1]

AgedRing(N) ==
    [i \in 0..(RING - 1) |->
        IF i < N THEN AgedBit(i + RING * ((N - 1 - i) \div RING)) ELSE 0]

Aged(m) ==
    [state |-> "HUNT", sym_bit |-> 0,
     data |-> [i \in 0..(DATA_CAP - 1) |-> -1], dcnt |-> 0,
     started |-> FALSE, parity |-> 0,
     ring |-> AgedRing(20 * m), rwr |-> 20 * m, rrd |-> 20 * m, rcnt |-> 0,
     stdout |-> <<>>, net |-> [calls |-> 0, dgrams |-> <<>>],
     trace |-> [ev |-> "invalid", acc |-> <<>>, locks |-> m,
                elocks |-> <<>>, ndec |-> 1, lockat |-> 20 * m - 10,
                nsym |-> 1, syms |-> <<>>, failat |-> 20 * m]]

\* Ages at which the next bits cross the end of ring[] and the end of
\* the cursors' range.
Ages == {RING \div 20, INT_MAX \div 20 - 1}

StartAs(d) ==
    /\ state = d.state     /\ sym_bit = d.sym_bit
    /\ data = d.data       /\ dcnt = d.dcnt
    /\ started = d.started /\ parity = d.parity
    /\ ring = d.ring       /\ rwr = d.rwr
    /\ rrd = d.rrd         /\ rcnt = d.rcnt
    /\ stdout = d.stdout   /\ net = d.net
    /\ trace = d.trace

InitAged ==
    /\ \E m \in Ages : StartAs(Aged(m))
    /\ InitEnv({[name |-> "free"]})
SpecAged == InitAged /\ [][Next]_vars

(* ------------------------------------------------------------------ *)
(* Call harness of the pure functions                                  *)
(* ------------------------------------------------------------------ *)
FmtFirst == 0..99
FmtRest  == {0, 9, 10, 99}

InitUnit ==
    /\ InitProg
    /\ tx = <<>> /\ sent = <<>> /\ scn = [name |-> "unit"]
    /\ mark = [state |-> "none"]
    /\ ret = <<>>
    /\ \/ \E g \in Groups : arg = [f |-> "sym_decode", x |-> g]
       \/ \E a \in FmtFirst, r \in [1..4 -> FmtRest] :
             arg = [f |-> "format", x |-> <<a>> \o r]

CallDecode ==
    /\ arg.f = "sym_decode" /\ ret = <<>>
    /\ ret' = <<sym_decode(arg.x)>>
    /\ UNCHANGED <<progvars, envvars, arg>>

\* The string the emission prints for data[0..4] = arg.x.
CallFormat ==
    /\ arg.f = "format" /\ ret = <<>>
    /\ ret' = <<StripLeadingZero(
                  Render([i \in 0..(DATA_CAP - 1) |->
                            IF i < 5 THEN arg.x[i + 1] ELSE -1], 0))>>
    /\ UNCHANGED <<progvars, envvars, arg>>

NextUnit == CallDecode \/ CallFormat
SpecUnit == InitUnit /\ [][NextUnit]_vars

(* ------------------------------------------------------------------ *)
(* Properties                                                          *)
(* ------------------------------------------------------------------ *)
\* The two decimal digits of v in 0..99, and the digit string of a
\* sequence of such values, written without the program's formatting.
TwoDigits(v) == <<DigitChar[(v \div 10) + 1], DigitChar[(v % 10) + 1]>>

RECURSIVE Text(_)
Text(vals) ==
    IF vals = <<>> THEN <<>> ELSE TwoDigits(Head(vals)) \o Text(Tail(vals))

\* The 9- or 10-character identifier of 5 digit pairs.
Ident(vals) ==
    LET t == Text(vals) IN IF t[1] = "0" THEN Tail(t) ELSE t

Line(vals) == <<"A", "T", "I", "S", ":", " ">> \o Ident(vals) \o <<"\n">>

Datagram(vals) == Ident(vals) \o <<"\n">>

\* Every datagram handed to the network left.
TransportUp == Len(net.dgrams) = net.calls

\* C5 (symbol validity): for each of the 1024 10-bit groups, sym_decode
\* returns the 7-bit value of the data bits (least-significant first)
\* exactly when the check field (most-significant first) equals the number
\* of zero data bits, and -1 for every other group.
C5_SymbolValidity ==
    (arg.f = "sym_decode" /\ ret # <<>>) =>
        LET g     == arg.x
            v     == g[1] + 2 * g[2] + 4 * g[3] + 8 * g[4]
                     + 16 * g[5] + 32 * g[6] + 64 * g[7]
            zeros == Cardinality({i \in 1..7 : g[i] = 0})
            chk   == 4 * g[8] + 2 * g[9] + g[10]
        IN  /\ (chk = zeros) => ret[1] = v
            /\ (chk # zeros) => ret[1] = -1
            /\ (ret[1] \in 0..127) <=> (chk = zeros)

\* The phasing symbol's data bits with a wrong check field (3 instead of
\* 1) have been rejected.
C5_Witness ==
    /\ arg.f = "sym_decode"
    /\ arg.x = <<1, 0, 1, 1, 1, 1, 1, 0, 1, 1>>
    /\ ret = <<-1>>

\* C6 (round trip): for every v in 0..99, sym_decode(encode(v)) = v.
C6_RoundTrip ==
    (arg.f = "sym_decode" /\ ret # <<>>) =>
        \A v \in 0..99 : (arg.x = encode(v)) => ret[1] = v

C6_Witness ==
    /\ arg.f = "sym_decode"
    /\ arg.x = encode(42)
    /\ ret = <<42>>

\* C7 (leading-zero normalisation): the string emitted for 5 accepted
\* values is the concatenation of their two-digit renderings, without its
\* first character exactly when it is 10 characters long and starts with
\* "0"; it is unchanged otherwise, and is 9 or 10 characters long.
C7_LeadingZero ==
    (arg.f = "format" /\ ret # <<>>) =>
        LET cat == Text(arg.x)
        IN  /\ (Len(cat) = 10 /\ cat[1] = "0") => ret[1] = Tail(cat)
            /\ ~(Len(cat) = 10 /\ cat[1] = "0") => ret[1] = cat
            /\ cat[1] # "0" => ret[1] = cat
            /\ Len(ret[1]) \in {9, 10}

\* 0, 9, 10, 99, 0 renders as "0009109900" and is emitted as "009109900".
C7_Witness ==
    /\ arg.f = "format"
    /\ arg.x = <<0, 9, 10, 99, 0>>
    /\ ret = << <<"0", "0", "9", "1", "0", "9", "9", "0", "0">> >>

(* ---- bursts (SpecBurst) ---- *)
\* The slot of the transmission that chunk i of a burst stream carries.
SlotOf(i) == scn.p + (i - scn.nph - 1)

\* The underlying symbol a slot carries.
UnderlyingOf(s) ==
    IF scn.layout = "il"
    THEN (IF s % 2 = 0 THEN s \div 2 ELSE (s - 5) \div 2)
    ELSE 5 * (s \div 10) + (s % 5)

\* Index in `sent` of the first symbol <= 99 after the phasing symbols.
FirstData ==
    CHOOSE i \in (scn.nph + 1)..Len(sent) :
        /\ sent[i].v <= 99
        /\ \A j \in (scn.nph + 1)..(i - 1) : sent[j].v > 99

\* Five consecutive underlying symbols, from k on.
Run5(k) == [j \in 1..5 |-> U(scn, k + j - 1)]

\* The phasing symbol twice, then the 10 data slots, all delivered.
E2ECase ==
    /\ scn.name = "burst" /\ scn.nph = 2 /\ scn.p = 0
    /\ Len(sent) = 2 + 10 /\ tx = <<>>

\* The values in data slots 0, 2, 4, 6, 8.
EvenSlots == [j \in 1..5 |-> sent[2 + (2 * j - 1)].v]

\* C1 as stated: the 5 digit pairs sent as 10 slots, pair i in slot i and
\* again in slot i + 5, come out as one line and one datagram holding the
\* pairs in their original order.
C1_AsStated ==
    (E2ECase /\ scn.layout = "block" /\ TransportUp) =>
        /\ stdout = <<Line(Run5(0))>>
        /\ net.dgrams = <<Datagram(Run5(0))>>

\* C1 (end-to-end acquisition), amended: after the phasing symbol twice and
\* 10 valid slots there is exactly one line on stdout and exactly one call
\* of udp_send, both carrying the values of slots 0, 2, 4, 6, 8 in order.
\* These are the 5 intended pairs in original order when pair k is sent in
\* slot 2k and repeated in slot 2k + 5, and pairs 0, 2, 4, 1, 3 when the
\* pairs are sent in slots 0..4 and repeated in slots 5..9.
C1_EndToEnd ==
    E2ECase =>
        /\ stdout = <<Line(EvenSlots)>>
        /\ net.calls = 1
        /\ TransportUp => net.dgrams = <<Datagram(EvenSlots)>>
        /\ ~TransportUp => net.dgrams = <<>>
        /\ scn.layout = "il" => EvenSlots = Run5(0)
        /\ scn.layout = "block" =>
              EvenSlots = <<U(scn, 0), U(scn, 2), U(scn, 4),
                            U(scn, 1), U(scn, 3)>>

\* Five distinct pairs, interleaved, decoded and sent.
C1_Witness ==
    /\ E2ECase /\ scn.layout = "il" /\ scn.step = 11 /\ scn.base = 5
    /\ stdout = <<Line(<<5, 16, 27, 38, 49>>)>>
    /\ net.dgrams = <<Datagram(<<5, 16, 27, 38, 49>>)>>

\* C4 as stated: whatever the layout in which each digit is sent twice 5
\* slots apart, the collector accepts 5 consecutive underlying digits in
\* original order, starting with the digit of the first symbol <= 99.
C4_AsStated ==
    (scn.name = "burst" /\ trace.ev = "emit") =>
        trace.acc = Run5(UnderlyingOf(SlotOf(FirstData)))

\* C4 (alternation correctness), amended: in every stream in which
\* underlying symbol k is sent in slot 2k and again in slot 2k + 5, the
\* collector accepts exactly one copy of each of 5 consecutive underlying
\* digits, in original order, starting with the digit carried by the first
\* symbol <= 99 it sees after lock, be that symbol a first transmission
\* (even slot) or a duplicate (odd slot); the stream yields one emission.
C4_Alternation ==
    (scn.name = "burst" /\ scn.layout = "il") =>
        /\ trace.ev = "emit" =>
              /\ trace.acc = Run5(UnderlyingOf(SlotOf(FirstData)))
              /\ [j \in 1..5 |-> data[j - 1]] = trace.acc
        /\ StreamDone => stdout = <<Line(Run5(UnderlyingOf(SlotOf(FirstData))))>>

\* The first symbol <= 99 was a duplicate (slot 5 repeats slot 0) and the
\* five digits came out in order.
C4_Witness ==
    /\ scn.name = "burst" /\ scn.layout = "il" /\ scn.p = 5
    /\ scn.step = 11 /\ scn.base = 42
    /\ trace.ev = "emit"
    /\ trace.acc = <<42, 53, 64, 75, 86>>

(* ---- noise, then a burst (SpecNoise) ---- *)
\* The unconsumed bits of a decoder's ring, oldest first.
Unread(d) == [i \in 1..d.rcnt |-> d.ring[CMod(d.rrd + (i - 1), RING)]]

\* The first nine bits of the encoded phasing symbol: 1 0 1 1 1 1 1 0 0.
PhasingHead == SubSeq(encode(SYM_DX), 1, 9)

\* The handler accepts either bit in the current state and leaves the
\* decoder in one of its two modes, with every counter in range.
Responsive ==
    \A b \in BIT, res \in SendRes :
        LET n == HandleBit(Cur, b, res)
        IN  /\ n.state \in {"HUNT", "LOCKED"}
            /\ n.rcnt \in 0..9
            /\ n.sym_bit \in 0..9
            /\ n.dcnt \in 0..4

NoiseCase == scn.name = "noise" /\ StreamDone

\* C2 as stated: after any run of arbitrary bits, a well-formed burst
\* (phasing symbol, then the interleaved 5-pair sequence) is decoded to its
\* digit string.
C2_AsStated ==
    NoiseCase => \E i \in 1..Len(stdout) : stdout[i] = Line(Run5NoiseBurst)

\* C2 (noise robustness), amended: after any run of arbitrary bits the
\* decoder is SEARCHING or LOCKED and handles the next bit; a well-formed
\* burst that follows is decoded to its digit string provided the decoder
\* is SEARCHING when the burst begins and its ring does not hold the nine
\* bits 101111100 with which the encoded phasing symbol starts.
C2_NoiseRobust ==
    /\ scn.name = "noise" => Responsive
    /\ (NoiseCase /\ mark.state = "HUNT" /\ Unread(mark) # PhasingHead) =>
          stdout = <<Line(Run5NoiseBurst)>>

\* Nine bits of noise were left in the ring when the burst began, and the
\* burst was decoded.
C2_Witness ==
    /\ NoiseCase
    /\ mark.state = "HUNT" /\ mark.rcnt = 9
    /\ Unread(mark) = <<1, 0, 1, 1, 1, 1, 1, 0, 1>>
    /\ stdout = <<Line(Run5NoiseBurst)>>

(* ---- resynchronisation (Spec) ---- *)
\* Index in `sent` of the corrupted group, 0 before it is sent.
BadAt == FirstOf(sent, "bad")

\* The first n chunks, and no more, have been delivered in full.
Delivered(n) == Len(sent) = n /\ tx = <<>>

First5  == [j \in 1..5 |-> U(FirstBurst, j - 1)]
Second5 == [j \in 1..5 |-> U(SecondBurst, j - 1)]

\* C3 (resync after corruption): a group with a wrong check field, decoded
\* in LOCKED, puts the decoder back in SEARCHING; the phasing symbol that
\* follows re-acquires lock; the digit sequence after it is emitted with
\* exactly its 5 digit pairs, none of them a value accepted before the
\* corruption.
C3_Resync ==
    (scn.name = "resync" /\ BadAt > 0) =>
        /\ (Delivered(BadAt) /\ mark.state = "LOCKED") =>
              state = "HUNT" /\ rcnt = 0
        /\ Delivered(BadAt + 1) =>
              /\ state = "LOCKED" /\ sym_bit = 0 /\ rcnt = 0
              /\ dcnt = 0 /\ ~started
        /\ Delivered(BadAt + 1 + 9) =>
              /\ stdout = <<Line(First5)>>
              /\ state = "HUNT"

\* Two values (77, 77) had been accepted when the corrupted group came,
\* and the sequence sent after the next phasing symbol was emitted alone.
C3_Witness ==
    /\ scn.name = "resync"
    /\ BadAt = 5 /\ Delivered(BadAt + 1 + 9)
    /\ sent[2] = Sym(77) /\ sent[3] = Sym(110) /\ sent[4] = Sym(77)
    /\ stdout = <<Line(First5)>>

\* The group the decoder takes out of the ring in a step that completes a
\* symbol: the nine unread bits and the bit just pushed.
GroupTaken == [i \in 1..10 |-> ring'[CMod(rrd + (i - 1), RING)]]

\* A step that decodes a group in LOCKED and finds its check field wrong.
FailedDecode ==
    /\ state = "LOCKED" /\ sym_bit = 9
    /\ rwr' # rwr
    /\ sym_decode(GroupTaken) < 0

\* C8 (invalid symbol while LOCKED): the step that decodes a group with a
\* wrong check field in LOCKED ends in SEARCHING with the output sequence
\* empty and the started flag cleared, and writes nothing to stdout or
\* the network; every emission consists of the values accepted since the
\* latest lock, so of none accepted before a failure.
C8_InvalidSymbol ==
    /\ [][FailedDecode =>
            /\ state' = "HUNT" /\ dcnt' = 0 /\ ~started'
            /\ stdout' = stdout /\ net' = net]_vars
    /\ [](trace.ev = "emit" =>
            /\ Len(trace.acc) = 5
            /\ stdout[Len(stdout)] = Line(trace.acc))

\* 77 was accepted, then a group failed; the emission after the next lock
\* holds only the pairs sent after it.
C8_Witness ==
    /\ scn.name = "resync"
    /\ BadAt = 3 /\ sent[2] = Sym(77)
    /\ trace.ev = "emit" /\ trace.locks = 2
    /\ stdout = <<Line(First5)>>

\* A value is stored in this step.
Accepts == trace'.acc # trace.acc /\ trace'.locks = trace.locks

\* C9 (emission lifecycle): a line is emitted exactly in the step that
\* stores the fifth value; that step ends in SEARCHING with the output
\* sequence empty and the started flag cleared; each emission consists of
\* 5 values in 0..99; no two emissions belong to the same lock.
C9_EmissionLifecycle ==
    /\ [][(stdout' # stdout) <=> (dcnt = 4 /\ Accepts)]_vars
    /\ [][stdout' # stdout =>
            /\ Len(stdout') = Len(stdout) + 1
            /\ state = "LOCKED" /\ state' = "HUNT"
            /\ dcnt' = 0 /\ ~started']_vars
    /\ [](trace.ev = "emit" =>
            /\ trace.acc \in [1..5 -> 0..99]
            /\ stdout[Len(stdout)] = Line(trace.acc))
    /\ [](/\ Len(trace.elocks) = Len(stdout)
          /\ \A i, j \in 1..Len(trace.elocks) :
                i < j => trace.elocks[i] < trace.elocks[j])

\* Two emissions, the second after a new lock.
C9_Witness ==
    /\ stdout = <<Line(First5), Line(Second5)>>
    /\ trace.elocks = <<2, 3>>
    /\ state = "HUNT" /\ dcnt = 0 /\ ~started

\* C10 (transport failure leaves the decoder unchanged): whenever a step
\* emits, the decoder it leaves (mode, ring and cursors, bit offset,
\* collection state) and the line on stdout are the same for every outcome
\* of the send, and udp_send is called exactly once.
C10_TransportFailure ==
    (state = "LOCKED" /\ sym_bit = 9) =>
        \A b \in BIT, r1 \in SendRes, r2 \in SendRes :
            LET n1 == SymbolStep(Cur, b, r1)
                n2 == SymbolStep(Cur, b, r2)
            IN  Len(n1.stdout) > Len(stdout) =>
                    /\ Decoder(n1) = Decoder(n2)
                    /\ n1.stdout = n2.stdout
                    /\ Len(n1.stdout) = Len(stdout) + 1
                    /\ n1.net.calls = net.calls + 1
                    /\ n2.net.calls = net.calls + 1
                    /\ n1.state = "HUNT"

\* An emission whose send failed: the line is on stdout, no datagram left,
\* and the decoder is back in SEARCHING.
C10_Witness ==
    /\ trace.ev = "emit"
    /\ stdout = <<Line(First5)>>
    /\ net.calls = 1 /\ net.dgrams = <<>>
    /\ state = "HUNT" /\ dcnt = 0


\* A per-bit step taken in SEARCHING, and the group that then stands at
\* the read cursor once the bit is appended.
HuntStepTaken == state = "HUNT" /\ rwr' # rwr

\* C11 (SEARCHING step): a step in SEARCHING appends the bit and alters no
\* other cell of the ring; when the ring then holds at least 10 bits the
\* oldest 10 are decoded in place: if they decode to 125 exactly those 10
\* are removed, the mode becomes LOCKED and the bit offset, the output
\* count, the started flag and the alternation counter are all reset;
\* otherwise exactly the oldest bit is removed and the mode stays
\* SEARCHING.  With fewer than 10 bits nothing is removed.
C11_SearchingStep ==
    [][HuntStepTaken =>
          /\ \A i \in 0..(RING - 1) :
                i # CMod(rwr, RING) => ring'[i] = ring[i]
          /\ rwr' = rwr + 1
          /\ IF rcnt + 1 < 10
             THEN /\ rrd' = rrd /\ rcnt' = rcnt + 1
                  /\ state' = "HUNT"
             ELSE IF sym_decode(GroupTaken) = SYM_DX
             THEN /\ rrd' = rrd + 10 /\ rcnt' = rcnt + 1 - 10
                  /\ state' = "LOCKED"
                  /\ sym_bit' = 0 /\ dcnt' = 0 /\ ~started' /\ parity' = 0
             ELSE /\ rrd' = rrd + 1 /\ rcnt' = rcnt
                  /\ state' = "HUNT"
                  /\ UNCHANGED <<sym_bit, dcnt, started, parity>>]_vars

\* The search has just dropped the oldest bit of a group that is a valid
\* symbol other than the phasing symbol, and holds the other 9.
C11_Witness ==
    /\ scn.name = "noise"
    /\ state = "HUNT" /\ trace.ev = "slide" /\ rcnt = 9 /\ rrd >= 1
    /\ sym_decode([i \in 1..10 |-> ring[CMod(rrd - 1 + (i - 1), RING)]])
           \in (0..127) \ {SYM_DX}


\* A per-bit step taken in LOCKED, and the number of bits that have
\* arrived after the phasing symbol once this step's bit is counted.
LockedStepTaken == state = "LOCKED" /\ rwr' # rwr

SinceLock == rwr' - trace.lockat

\* C12 (LOCKED symbol grouping): a lock leaves the ring empty, so the first
\* group starts with the bit right after the phasing symbol; a step in
\* LOCKED decodes exactly when the bit it appends is the 10*k-th after the
\* phasing symbol, that decode is the k-th since the lock, and it takes
\* bits 10*(k-1)+1 .. 10*k after the phasing symbol, which are removed;
\* every other step decodes and removes nothing.
C12_LockedGrouping ==
    /\ [](trace.ev = "lock" =>
            /\ rcnt = 0 /\ rrd = rwr /\ trace.lockat = rwr
            /\ trace.nsym = 0)
    /\ [][LockedStepTaken =>
            IF SinceLock % 10 = 0
            THEN /\ trace'.ndec = 1
                 /\ trace'.nsym = SinceLock \div 10
                 /\ rrd = trace.lockat + (SinceLock - 10)
                 /\ rrd' = rrd + 10 /\ rcnt' = 0
                 /\ IF sym_decode(GroupTaken) < 0
                    THEN trace'.ev = "invalid"
                    ELSE trace'.syms =
                            Append(trace.syms, sym_decode(GroupTaken))
            ELSE /\ trace'.ndec = 0
                 /\ trace'.nsym = trace.nsym
                 /\ rrd' = rrd /\ rcnt' = rcnt + 1
                 /\ state' = "LOCKED"]_vars

\* The third group after a lock has just been decoded, 30 bits after the
\* phasing symbol.
C12_Witness ==
    /\ scn.name = "free"
    /\ state = "LOCKED" /\ trace.nsym = 3
    /\ rwr = trace.lockat + 30 /\ rrd = rwr
    /\ trace.ndec = 1


\* The collector rule applied to the values s of the valid symbols decoded
\* since a lock: the symbols before the first one <= 99 are dropped; the
\* rest are numbered from 0, and the values <= 99 at even numbers are
\* kept, in order.
RECURSIVE FromFirstDigit(_)
FromFirstDigit(s) ==
    IF s = <<>> \/ Head(s) <= 99 THEN s ELSE FromFirstDigit(Tail(s))

RECURSIVE KeptFrom(_, _)
KeptFrom(s, pos) ==
    IF s = <<>> THEN <<>>
    ELSE (IF pos % 2 = 0 /\ Head(s) <= 99 THEN <<Head(s)>> ELSE <<>>)
         \o KeptFrom(Tail(s), pos + 1)

Kept(s) == KeptFrom(FromFirstDigit(s), 0)

\* C13 (collector rule): the values stored since a lock are those the rule
\* keeps from the valid symbols decoded since that lock; while LOCKED the
\* alternation counter is the number of symbols from the first one <= 99
\* on (0 before it), so a symbol before it does not advance the counter
\* and a symbol > 99 at an even position does.
C13_CollectorRule ==
    /\ trace.acc = Kept(trace.syms)
    /\ (trace.ev \in {"ignore", "read", "skip"} =>
          /\ state = "LOCKED"
          /\ started <=> (FromFirstDigit(trace.syms) # <<>>)
          /\ parity = Len(FromFirstDigit(trace.syms))
          /\ dcnt = Len(trace.acc)
          /\ \A i \in 1..dcnt : data[i - 1] = trace.acc[i])

\* 77 stored at position 0; 110 at position 1 skipped; 110 at position 2
\* not stored, but it takes the position, so the 77 after it falls on
\* position 3 and is skipped; the next 77, at position 4, is stored.
C13_Witness ==
    /\ scn.name = "resync"
    /\ trace.syms = <<77, 110, 110, 77, 77>>
    /\ trace.acc = <<77, 77>> /\ parity = 5 /\ dcnt = 2


\* The cells of ring[] that hold bits not yet consumed.
UnreadCells == {CMod(AddInt(rrd, i), RING) : i \in 0..(rcnt - 1)}

\* C14 (ring occupancy): at the end of every per-bit step the ring holds
\* at most 9 unconsumed bits in SEARCHING and exactly sym_bit (0..9) in
\* LOCKED, and none right after a lock, a failed decode or an emission;
\* so the bit appended next brings it to 10 at most, far below the
\* RING cells, the unconsumed bits are the rcnt cells from the read cursor
\* up to the write cursor, and the cell written next is none of them.
C14_RingOccupancy ==
    /\ rcnt \in 0..9
    /\ state = "LOCKED" => (rcnt = sym_bit /\ sym_bit \in 0..9)
    /\ trace.ev \in {"lock", "invalid", "emit"} => rcnt = 0
    /\ rcnt + 1 <= 10 /\ 10 < RING
    /\ rwr = AddInt(rrd, rcnt)
    /\ Cardinality(UnreadCells) = rcnt
    /\ CMod(rwr, RING) \notin UnreadCells

\* A group has just failed in LOCKED after the search had slid over
\* noise: the decoder is back in SEARCHING with the ring empty.
C14_Witness ==
    /\ scn.name = "noise"
    /\ trace.ev = "invalid" /\ state = "HUNT" /\ rcnt = 0
    /\ trace.lockat > 10 /\ rwr >= trace.lockat + 10


\* C15 (bounded work per bit): no per-bit step calls sym_decode more than
\* once.  A step in SEARCHING calls it once when the appended bit brings
\* the ring to 10 bits and not at all otherwise (the search loop's body
\* runs at most once per bit); a step in LOCKED calls it once when the
\* appended bit is the 10th, 20th, ... since the lock and not at all
\* otherwise.
C15_BoundedWork ==
    /\ [](trace.ndec \in 0..1)
    /\ [][HuntStepTaken =>
            trace'.ndec = (IF rcnt + 1 >= 10 THEN 1 ELSE 0)]_vars
    /\ [][LockedStepTaken =>
            trace'.ndec = (IF SinceLock % 10 = 0 THEN 1 ELSE 0)]_vars

\* Back in SEARCHING after a lock that failed, the search has examined
\* one group for the bit just appended and slid by one bit.
C15_Witness ==
    /\ scn.name = "noise"
    /\ state = "HUNT" /\ trace.ev = "slide" /\ trace.ndec = 1
    /\ trace.locks >= 1 /\ rcnt = 9


\* A group whose check field, read most-significant bit first, is the
\* number of zeros among its 7 data bits; and g with its bit i inverted.
WellFormed(g) ==
    g[8] * 4 + g[9] * 2 + g[10] = Cardinality({i \in 1..7 : g[i] = 0})

Flip(g, i) == [g EXCEPT ![i] = 1 - @]

\* C16 (single-bit error detection): a group that differs in exactly one
\* of its 10 bits from a valid symbol (any 7-bit value with its correct
\* check field) is rejected by sym_decode.
C16_SingleBitError ==
    (arg.f = "sym_decode" /\ ret # <<>>
       /\ \E i \in 1..10 : WellFormed(Flip(arg.x, i)))
        => ret[1] = -1

\* The symbol 42 with its third data bit, and the symbol 127 with its last
\* check bit, inverted: both rejected.
C16_Witness ==
    /\ arg.f = "sym_decode"
    /\ arg.x \in {Flip(encode(42), 3), Flip(encode(127), 10)}
    /\ WellFormed(Flip(arg.x, 3)) \/ WellFormed(Flip(arg.x, 10))
    /\ ret = <<-1>>


\* C17 (no resynchronisation inside a failed group): the step in which a
\* LOCKED decode fails leaves the ring empty, the read cursor right after
\* the failed group; the read cursor never again stands before the end of
\* the latest failed group, so none of its bits is examined again; and
\* the 10 bits of every phasing symbol acquired later lie wholly after
\* it, so a phasing symbol that begins inside the failed group is not
\* acquired.
C17_NoResyncInside ==
    /\ [][FailedDecode =>
            /\ state' = "HUNT" /\ rcnt' = 0
            /\ rrd' = rwr' /\ trace'.failat = rwr']_vars
    /\ [](rrd >= trace.failat)
    /\ [](trace.ev = "lock" => trace.lockat - 10 >= trace.failat)

\* Phasing symbol, a 0, phasing symbol: the group after the lock is the 0
\* and 9 bits of the second phasing symbol, and fails; the search took up
\* with that symbol's last bit, and the symbol was not acquired.
C17_Witness ==
    /\ scn.name = "free"
    /\ sent = <<Sym(SYM_DX), Bit(0), Sym(SYM_DX)>> /\ tx = <<>>
    /\ state = "HUNT" /\ trace.locks = 1
    /\ trace.failat = 20 /\ rrd = 20 /\ rcnt = 1


\* C18 (collection bounds): at the end of every per-bit step dcnt is in
\* 0..4; within a step it rises by at most one, to 5 at most, and from 5
\* the same step takes it back to 0 (the emission); elements 5..15 of
\* data[] are never written; and since dcnt < 5 whenever a symbol is
\* collected, the guard dcnt < 16 lets through exactly what a guard
\* "fewer than 5 stored" would.
C18_CollectionBounds ==
    /\ [](dcnt \in 0..4)
    /\ [](\A i \in 5..(DATA_CAP - 1) : data[i] = -1)
    /\ []((dcnt < DATA_CAP) <=> (dcnt < 5))
    /\ [][dcnt' # dcnt =>
            \/ dcnt' = dcnt + 1 /\ data'[dcnt] \in 0..99
            \/ dcnt' = 0]_vars
    /\ [][stdout' # stdout => (dcnt + 1 = 5 /\ dcnt' = 0)]_vars

\* The second line has been emitted: data[0..4] were all written,
\* data[5] never.
C18_Witness ==
    /\ scn.name = "resync"
    /\ trace.ev = "emit" /\ Len(stdout) = 2 /\ dcnt = 0
    /\ \A i \in 0..4 : data[i] \in 0..99
    /\ data[5] = -1


\* The values of the chunks sent after the first one.
RECURSIVE ValuesOf(_)
ValuesOf(h) == IF h = <<>> THEN <<>> ELSE <<Head(h).v>> \o ValuesOf(Tail(h))

\* The stream so far is a phasing symbol, which has arrived in full,
\* followed by valid symbols only, and these give the collector fewer
\* than 5 values to keep.
HoldCase ==
    /\ sent # <<>> /\ (Len(sent) >= 2 \/ tx = <<>>)
    /\ \A i \in 1..Len(sent) : sent[i].k = "sym"
    /\ Len(Kept(ValuesOf(Tail(sent)))) < 5

\* C19 (LOCKED has no exit of its own): a step leaves LOCKED only when it
\* decodes an invalid group or stores the fifth value; so as long as the
\* stream after the phasing symbol consists of valid symbols that have
\* not supplied a fifth value <= 99 at a READ position, however many they
\* are, the decoder is LOCKED on that first lock, has emitted nothing and
\* has not searched again.
C19_LockedExits ==
    /\ [][(state = "LOCKED" /\ state' = "HUNT") =>
            (FailedDecode \/ (dcnt = 4 /\ Accepts /\ stdout' # stdout))]_vars
    /\ [](HoldCase =>
            /\ state = "LOCKED"
            /\ stdout = <<>> /\ net.calls = 0
            /\ trace.locks = 1 /\ trace.failat = 0
            /\ trace.ev \in {"lock", "shift", "ignore", "read", "skip"})

\* MaxHold reserved symbols after the phasing symbol, all of them
\* ignored: still LOCKED, nothing stored, nothing emitted.
C19_Witness ==
    /\ scn.name = "hold"
    /\ Len(sent) = MaxHold + 1 /\ tx = <<>>
    /\ \A i \in 2..Len(sent) : sent[i] = Sym(110)
    /\ state = "LOCKED" /\ ~started /\ dcnt = 0
    /\ trace.nsym = Len(sent) - 1
    /\ stdout = <<>>


\* C20 (ring cursor range on an unbounded stream): with rwr and rrd ints
\* that wrap at their width, in every reachable state the cell the next
\* bit is written to (rwr % RING) and the cells of the unconsumed bits
\* ((rrd + i) % RING, i < rcnt), which the next reads address, lie within
\* 0..RING-1.
C20_IndexInRange ==
    /\ CMod(rwr, RING) \in 0..(RING - 1)
    /\ UnreadCells \subseteq 0..(RING - 1)

\* The write cursor has passed INT_MAX: it stands at INT_MIN + 1, whose
\* remainder by RING is -255, with the decoder about to append a bit.
C20_Overflowed ==
    /\ scn.name = "free"
    /\ rwr = INT_MIN + 1 /\ rrd <= INT_MAX
    /\ CMod(rwr, RING) = 1 - RING
    /\ trace.locks > INT_MAX \div 20 - 1

====
